---- MODULE Spec2Model ----
(***************************************************************************)
(* FieldView: the data container (fieldview/core/data_container.py), the   *)
(* data layer (fieldview/layers/data_layer.py) and the heatmap layer       *)
(* (fieldview/layers/heatmap_layer.py) as state machines.                  *)
(*                                                                         *)
(* Arrays are sequences; source indices are 0-based and are kept 0-based   *)
(* in every input, the sequences being read at index + 1.                  *)
(***************************************************************************)
EXTENDS Integers, Sequences, FiniteSets, TLC

VARIABLES
    points,         \* DataContainer._points: sequence of <<x, y>>
    values,         \* DataContainer._values: sequence of numbers
    lastCall,       \* the last DataContainer call: what it did and how often it emitted dataChanged
    layer,          \* the HeatmapLayer object: its fields, by their source names
    hist,           \* what the last change and the last render pass did (history only)
    cache,          \* an InterpolatorCache and what its last call returned
    qimage,         \* the last _array_to_qimage and set_color_range calls: input and result
    gen,            \* a BoundaryPointGenerator and the arguments of its last fit
    dlayers         \* the DataLayers sharing the container: their excluded sets and last call

vars == <<points, values, lastCall, layer, hist, cache, qimage, gen, dlayers>>

(***************************************************************************)
(* Bounds of the model.                                                    *)
(***************************************************************************)
MaxPoints == 3      \* longest point or value array kept in the container
MaxArg == 2         \* longest array handed to one container call

(***************************************************************************)
(* Input domains.                                                          *)
(***************************************************************************)
Coords == {<<0, 0>>, <<10, 0>>, <<0, 10>>}
Values == {1, 2}

Max(a, b) == IF a >= b THEN a ELSE b
Min(a, b) == IF a <= b THEN a ELSE b

SeqsUpTo(S, n) == UNION {[1..k -> S] : k \in 0..n}

\* An array argument as numpy sees it after np.array(...): ok is "has the shape
\* the container stores" (points Nx2, values 1-D); a malformed argument is an
\* Nx3 point array or an Nx1 two-dimensional value array, which np.vstack and
\* np.concatenate reject as set_data's shape checks do.
Array(ok, rows) == [ok |-> ok, rows |-> rows]

PointArgs == {Array(TRUE, r) : r \in SeqsUpTo(Coords, MaxArg)}
             \cup {Array(FALSE, [i \in 1..k |-> <<0, 0>>]) : k \in 1..MaxArg}
ValueArgs == {Array(TRUE, r) : r \in SeqsUpTo(Values, MaxArg)}
             \cup {Array(FALSE, [i \in 1..k |-> 1]) : k \in 1..MaxArg}

\* update_point's optional arguments: None, a usable value, or one numpy
\* cannot store in the element (a sequence for a value, a 3-tuple for a point).
Opt(kind, v) == [kind |-> kind, v |-> v]
ValueOpts == {Opt("none", 0), Opt("bad", 0)} \cup {Opt("some", v) : v \in Values}
PointOpts == {Opt("none", <<0, 0>>), Opt("bad", <<0, 0>>)} \cup {Opt("some", c) : c \in Coords}

(***************************************************************************)
(* DataContainer.  Each method is a function from the stored arrays and    *)
(* the arguments to the stored arrays afterwards, the number of            *)
(* dataChanged emissions, and whether the call raised.                     *)
(***************************************************************************)
DCResult(P, V, e, r) == [points |-> P, values |-> V, emitted |-> e, raised |-> r]

set_data(P, V, p, v) ==
    IF ~p.ok \/ ~v.ok \/ Len(p.rows) # Len(v.rows)
    THEN DCResult(P, V, 0, TRUE)
    ELSE DCResult(p.rows, v.rows, 1, FALSE)

add_points(P, V, p, v) ==
    IF Len(p.rows) = 0 THEN DCResult(P, V, 0, FALSE)
    ELSE IF Len(P) = 0 THEN set_data(P, V, p, v)
    ELSE IF ~p.ok THEN DCResult(P, V, 0, TRUE)
    ELSE IF ~v.ok THEN DCResult(P \o p.rows, V, 0, TRUE)
    ELSE DCResult(P \o p.rows, V \o v.rows, 1, FALSE)

update_point(P, V, index, value, point) ==
    IF index < 0 \/ index >= Len(P) THEN DCResult(P, V, 0, TRUE)
    ELSE IF value.kind # "none" /\ (value.kind = "bad" \/ index >= Len(V))
    THEN DCResult(P, V, 0, TRUE)
    ELSE LET V1 == IF value.kind = "some" THEN [V EXCEPT ![index + 1] = value.v] ELSE V
         IN  IF point.kind = "bad" THEN DCResult(P, V1, 0, TRUE)
             ELSE LET P1 == IF point.kind = "some"
                            THEN [P EXCEPT ![index + 1] = point.v] ELSE P
                      changed == value.kind = "some" \/ point.kind = "some"
                  IN  DCResult(P1, V1, IF changed THEN 1 ELSE 0, FALSE)

\* np.delete(arr, indices): an index outside -len..len-1 raises IndexError,
\* a negative one counts from the end.
DeleteRaises(S, indices) == \E i \in indices : i < -Len(S) \/ i >= Len(S)
Delete(S, indices) ==
    LET n == Len(S)
        gone == {IF i < 0 THEN i + n ELSE i : i \in indices}
        keep == {i \in 0..(n - 1) : i \notin gone}
        F[k \in 0..n] ==
            IF k = 0 THEN <<>>
            ELSE IF (k - 1) \in keep THEN Append(F[k - 1], S[k]) ELSE F[k - 1]
    IN  F[n]

remove_points(P, V, indices) ==
    IF indices = {} THEN DCResult(P, V, 0, FALSE)
    ELSE IF DeleteRaises(P, indices) THEN DCResult(P, V, 0, TRUE)
    ELSE IF DeleteRaises(V, indices) THEN DCResult(Delete(P, indices), V, 0, TRUE)
    ELSE DCResult(Delete(P, indices), Delete(V, indices), 1, FALSE)

clear(P, V) == DCResult(<<>>, <<>>, 1, FALSE)

\* the arrays stay within the model's bound
Fits(res) == Len(res.points) <= MaxPoints /\ Len(res.values) <= MaxPoints

(***************************************************************************)
(* DataLayer.get_valid_data (data_layer.py): the stored arrays without the *)
(* rows at the excluded indices, in their order.  It returns two arrays.   *)
(***************************************************************************)
Mask(P, excluded) == {i \in 0..(Len(P) - 1) : i \notin excluded}

Take(S, mask) ==
    LET F[k \in 0..Len(S)] ==
            IF k = 0 THEN <<>>
            ELSE IF (k - 1) \in mask THEN Append(F[k - 1], S[k]) ELSE F[k - 1]
    IN  F[Len(S)]

get_valid_data(P, V, excluded) ==
    IF excluded = {} THEN <<P, V>>
    ELSE <<Take(P, Mask(P, excluded)), Take(V, Mask(P, excluded))>>

\* HeatmapLayer unpacks three results (heatmap_layer.py:129, 180): points,
\* values and a third it discards.  The three-result get_valid_data it is
\* written against (tests/test_data_layer.py:34) is not the one of
\* data_layer.py, which returns two; the layer is modelled against the
\* former, the third result being the labels of the kept rows.
get_valid_data_labels(P, V, excluded) ==
    get_valid_data(P, V, excluded) \o <<[i \in 1..Cardinality(Mask(P, excluded)) |-> "label"]>>

(***************************************************************************)
(* DataLayer's excluded indices: the layers of one container, each with    *)
(* the set its __init__ created.                                           *)
(***************************************************************************)
MaxCalls == 3           \* calls on the excluded sets in one run
DataLayers == {1, 2}
Indices == {0, 1, 5}

\* set(indices) of a list
SetOf(indices) == {indices[i] : i \in 1..Len(indices)}

\* What a method did: the layer's set afterwards, whether update_layer()
\* was called, and what it returned (None is the empty sequence).
Did(excluded, updated, returned) ==
    [excluded |-> excluded, updated |-> updated, returned |-> returned]

set_excluded_indices(excluded, indices) == Did(SetOf(indices), TRUE, <<>>)
add_excluded_index(excluded, index) == Did(excluded \cup {index}, TRUE, <<>>)
remove_excluded_index(excluded, index) ==
    IF index \in excluded THEN Did(excluded \ {index}, TRUE, <<>>)
    ELSE Did(excluded, FALSE, <<>>)
clear_excluded_indices(excluded) == Did({}, TRUE, <<>>)

\* a bug the layers could have: one set, a class attribute, for all of them
AssignToAll(all, l, excluded) == [k \in DOMAIN all |-> excluded]
\* self._excluded_indices of layer l is bound to excluded
Assign(all, l, excluded) == [all EXCEPT ![l] = excluded]

NoLayerCall == [layer |-> 0, op |-> "", updated |-> FALSE, returned |-> <<>>]
NewDataLayers == [excluded |-> [l \in DataLayers |-> {}], call |-> NoLayerCall, calls |-> 0]

(***************************************************************************)
(* Geometry: QRectF and QPolygonF.                                         *)
(***************************************************************************)
Rect(x, y, w, h) == [x |-> x, y |-> y, w |-> w, h |-> h]
NullRect == Rect(0, 0, 0, 0)

\* QPolygonF(QRectF): the four corners clockwise from the top-left one, which
\* also closes the polygon.
RectPolygon(r) ==
    << <<r.x, r.y>>, <<r.x + r.w, r.y>>, <<r.x + r.w, r.y + r.h>>, <<r.x, r.y + r.h>>, <<r.x, r.y>> >>

EmptyPolygon == <<>>

SetMin(S) == CHOOSE m \in S : \A x \in S : m <= x
SetMax(S) == CHOOSE m \in S : \A x \in S : m >= x
Xs(poly) == {poly[i][1] : i \in 1..Len(poly)}
Ys(poly) == {poly[i][2] : i \in 1..Len(poly)}

boundingRect(poly) ==
    IF Len(poly) = 0 THEN NullRect
    ELSE Rect(SetMin(Xs(poly)), SetMin(Ys(poly)),
              SetMax(Xs(poly)) - SetMin(Xs(poly)), SetMax(Ys(poly)) - SetMin(Ys(poly)))

\* rect.adjusted(-dx, -dy, dx, dy) with dx = width / grid_size and dy = height
\* / grid_size: the edges as fractions <<numerator, grid_size>>
expanded_rect(rect, grid_size) ==
    [ left |-> <<rect.x * grid_size - rect.w, grid_size>>,
      top |-> <<rect.y * grid_size - rect.h, grid_size>>,
      right |-> <<(rect.x + rect.w) * grid_size + rect.w, grid_size>>,
      bottom |-> <<(rect.y + rect.h) * grid_size + rect.h, grid_size>> ]
\* QRectF()
NullExpanded == [left |-> <<0, 1>>, top |-> <<0, 1>>, right |-> <<0, 1>>, bottom |-> <<0, 1>>]
\* two rectangles with equal edges
SameRect(a, b) ==
    /\ a.left[1] * b.left[2] = b.left[1] * a.left[2]
    /\ a.top[1] * b.top[2] = b.top[1] * a.top[2]
    /\ a.right[1] * b.right[2] = b.right[1] * a.right[2]
    /\ a.bottom[1] * b.bottom[2] = b.bottom[1] * a.bottom[2]

\* on_data_changed's auto-boundary: the data's bounding box padded on each side
\* by max(10, 10% of its extent), or the empty polygon without data.  The
\* coordinates of the model are multiples of 10, so extent * 0.1 is exact.
AutoBoundary(pts) ==
    IF Len(pts) = 0 THEN EmptyPolygon
    ELSE LET r == boundingRect(pts)
             padding_x == Max(10, r.w \div 10)
             padding_y == Max(10, r.h \div 10)
         IN  RectPolygon(Rect(r.x - padding_x, r.y - padding_y,
                              r.w + 2 * padding_x, r.h + 2 * padding_y))

(***************************************************************************)
(* BoundaryPointGenerator (fieldview.utils.interpolation): the points it   *)
(* samples along the boundary polygon.  Lengths are taken between points   *)
(* whose distance is a whole number; a sampled coordinate is a fraction    *)
(* <<numerator, denominator>>.                                             *)
(***************************************************************************)
MaxLength == 50         \* the longest distance between two points of the inputs

\* np.linalg.norm(p2 - p1) and the cKDTree distances
Sqrt(n) == CHOOSE r \in 0..MaxLength : r * r = n
Squared(p, q) == (p[1] - q[1]) * (p[1] - q[1]) + (p[2] - q[2]) * (p[2] - q[2])
Dist(p, q) == Sqrt(Squared(p, q))

\* tree.query(points, k=2)[0][:, 1]: the distance from point i to the nearest
\* other point (the nearest of all is the point itself)
NearestDistance(pts, i) == Sqrt(SetMin({Squared(pts[i], pts[j]) : j \in (1..Len(pts)) \ {i}}))

RECURSIVE SumNearest(_, _)
SumNearest(pts, n) == IF n = 0 THEN 0 ELSE NearestDistance(pts, n) + SumNearest(pts, n - 1)

\* target_segment_length as a fraction: the one given, or 1.2 times the mean
\* nearest distance, or 10.0 when that is not positive
SegmentLength(pts, target_segment_length) ==
    IF target_segment_length # <<>> THEN <<target_segment_length[1], 1>>
    ELSE IF SumNearest(pts, Len(pts)) <= 0 THEN <<10, 1>>
    ELSE <<6 * SumNearest(pts, Len(pts)), 5 * Len(pts)>>

\* QPolygonF.isClosed()
isClosed(poly) == Len(poly) > 0 /\ poly[1] = poly[Len(poly)]

\* a bug the loop closing could have: the first vertex is appended always
AppendFirstAlways(boundary_shape) == Append(boundary_shape, boundary_shape[1])
\* poly_points: the vertices, with the first one appended to an open polygon
poly_points(boundary_shape) ==
    IF isClosed(boundary_shape)
    THEN IF boundary_shape[1] # boundary_shape[Len(boundary_shape)]
         THEN Append(boundary_shape, boundary_shape[1])
         ELSE boundary_shape
    ELSE Append(boundary_shape, boundary_shape[1])

\* n_segments = max(1, int(ceil(segment_len / target_segment_length)))
n_segments(p1, p2, length) ==
    Max(1, (Dist(p1, p2) * length[2] + length[1] - 1) \div length[1])

\* the points p1 + (j / n_segments) (p2 - p1) for j = 0 .. n_segments - 1
EdgePoints(p1, p2, length) ==
    LET n == n_segments(p1, p2, length)
    IN  [k \in 1..n |-> << <<p1[1] * n + (k - 1) * (p2[1] - p1[1]), n>>,
                           <<p1[2] * n + (k - 1) * (p2[2] - p1[2]), n>> >>]

RECURSIVE AlongEdges(_, _, _)
AlongEdges(pp, i, length) ==
    IF i >= Len(pp) THEN <<>>
    ELSE EdgePoints(pp[i], pp[i + 1], length) \o AlongEdges(pp, i + 1, length)

\* _generate_points
generate_points(pts, boundary_shape, target_segment_length) ==
    AlongEdges(poly_points(boundary_shape), 1,
               SegmentLength(pts, target_segment_length))

\* Distances from a sampled point q to a source point p: the square, as a
\* numerator over the square of q's denominator.
SquaredTo(q, p) ==
    (q[1][1] - p[1] * q[1][2]) * (q[1][1] - p[1] * q[1][2])
        + (q[2][1] - p[2] * q[2][2]) * (q[2][1] - p[2] * q[2][2])

\* tree.query(boundary_points, k=2): the nearest source point outside skip,
\* the one of lower index among equally near ones
Nearest(q, pts, skip) ==
    CHOOSE k \in (1..Len(pts)) \ skip :
        \A j \in (1..Len(pts)) \ skip :
            \/ SquaredTo(q, pts[k]) < SquaredTo(q, pts[j])
            \/ SquaredTo(q, pts[k]) = SquaredTo(q, pts[j]) /\ k <= j
\* the indices (from 1) of the two nearest source points, nearest first
Neighbors(q, pts) ==
    LET first == Nearest(q, pts, {})
    IN  <<first, Nearest(q, pts, {first})>>

\* 1.0 / np.maximum(dist, 1e-9): of a distance of 0 it is 1e9 (clamped), of
\* any other distance of the model, all far above 1e-9, the inverse of the
\* root of the squared distance
InverseDistance(q, p) ==
    IF SquaredTo(q, p) = 0
    THEN [clamped |-> TRUE, squared |-> <<0, 1>>]
    ELSE [clamped |-> FALSE, squared |-> <<SquaredTo(q, p), q[1][2] * q[1][2]>>]

\* weights / row_sums for one boundary point: each of the 2 inverse distances
\* with the pair it is divided by the sum of
NormalizedWeights(q, pts) ==
    LET nb == Neighbors(q, pts)
        inv == <<InverseDistance(q, pts[nb[1]]), InverseDistance(q, pts[nb[2]])>>
    IN  [k \in 1..2 |-> [inverse |-> inv[k], row |-> inv]]

NoFit == [points |-> <<>>, boundary_shape |-> <<>>, target_segment_length |-> <<>>]
NoTransform == [ran |-> FALSE, values |-> <<>>, result |-> <<>>, count |-> 0, previous |-> <<>>]
\* BoundaryPointGenerator()
NewGenerator ==
    [is_fitted |-> FALSE, boundary_points |-> <<>>, idw_indices |-> <<>>,
     idw_weights |-> <<>>, raised |-> FALSE, fit |-> NoFit, transform |-> NoTransform]

\* fit; an empty polygon makes poly_points[0] raise IndexError
fit(self, pts, boundary_shape, target_segment_length) ==
    LET call == [points |-> pts, boundary_shape |-> boundary_shape,
                 target_segment_length |-> target_segment_length]
        bp == generate_points(pts, boundary_shape, target_segment_length)
    IN  IF Len(pts) < 2
        THEN [self EXCEPT !.is_fitted = FALSE, !.raised = FALSE, !.fit = call,
                          !.transform = NoTransform]
        ELSE IF boundary_shape = <<>>
        THEN [self EXCEPT !.raised = TRUE, !.fit = call, !.transform = NoTransform]
        ELSE IF Len(bp) = 0
        THEN [self EXCEPT !.is_fitted = FALSE, !.boundary_points = bp,
                          !.raised = FALSE, !.fit = call, !.transform = NoTransform]
        ELSE [self EXCEPT !.is_fitted = TRUE, !.boundary_points = bp,
                          !.idw_indices = [i \in 1..Len(bp) |-> Neighbors(bp[i], pts)],
                          !.idw_weights = [i \in 1..Len(bp) |-> NormalizedWeights(bp[i], pts)],
                          !.raised = FALSE, !.fit = call, !.transform = NoTransform]

\* get_boundary_points
get_boundary_points(self) == IF self.is_fitted THEN self.boundary_points ELSE <<>>

(***************************************************************************)
(* The numbers of the weights.  1e9, the inverse of the clamp 1e-9, is kept *)
(* as a symbol E: a number is a quotient of two polynomials in E, each the  *)
(* sequence of its coefficients from the constant one.  The coefficients    *)
(* of the model are far below 1e9, so two quotients are equal as numbers    *)
(* exactly when they are equal as quotients of polynomials.                 *)
(***************************************************************************)
Coef(p, k) == IF k \in 1..Len(p) THEN p[k] ELSE 0
RECURSIVE ConvolveAt(_, _, _, _)
ConvolveAt(p, q, k, i) ==
    IF i > k THEN 0 ELSE Coef(p, i) * Coef(q, k + 1 - i) + ConvolveAt(p, q, k, i + 1)
PolyMul(p, q) == [k \in 1..(Len(p) + Len(q) - 1) |-> ConvolveAt(p, q, k, 1)]
PolyAdd(p, q) == [k \in 1..Max(Len(p), Len(q)) |-> Coef(p, k) + Coef(q, k)]
PolyEqual(p, q) == \A k \in 1..Max(Len(p), Len(q)) : Coef(p, k) = Coef(q, k)

Abs(x) == IF x < 0 THEN -x ELSE x
RECURSIVE GCD(_, _)
GCD(a, b) == IF b = 0 THEN a ELSE GCD(b, a % b)
RECURSIVE PolyGCD(_, _)
PolyGCD(p, k) == IF k = 0 THEN 0 ELSE GCD(Abs(p[k]), PolyGCD(p, k - 1))
\* a quotient with the common factor of all its coefficients taken out
Ratio(num, den) ==
    LET g == GCD(PolyGCD(num, Len(num)), PolyGCD(den, Len(den)))
    IN  IF g <= 1 THEN [num |-> num, den |-> den]
        ELSE [num |-> [k \in 1..Len(num) |-> num[k] \div g],
              den |-> [k \in 1..Len(den) |-> den[k] \div g]]
Whole(v) == Ratio(<<v>>, <<1>>)
RatioEqual(r, t) == PolyEqual(PolyMul(r.num, t.den), PolyMul(t.num, r.den))
RatioAdd(r, t) ==
    Ratio(PolyAdd(PolyMul(r.num, t.den), PolyMul(t.num, r.den)), PolyMul(r.den, t.den))
RatioTimes(r, t) == Ratio(PolyMul(r.num, t.num), PolyMul(r.den, t.den))
RatioDivide(r, t) == Ratio(PolyMul(r.num, t.den), PolyMul(r.den, t.num))

\* the root of a square number
Root(m) == CHOOSE r \in 0..m : r * r = m
\* the value of an inverse distance: E when clamped
InverseValue(inv) ==
    IF inv.clamped THEN Ratio(<<0, 1>>, <<1>>)
    ELSE Ratio(<<Root(inv.squared[2])>>, <<Root(inv.squared[1])>>)
\* the value of a weight: weights / row_sums
WeightValue(w) ==
    RatioDivide(InverseValue(w.inverse),
                RatioAdd(InverseValue(w.row[1]), InverseValue(w.row[2])))

\* a bug transform could have: it takes the value of the nearest neighbor
transform_nearest(self, vals) ==
    IF ~self.is_fitted THEN <<>>
    ELSE [i \in 1..Len(self.idw_indices) |-> Whole(vals[self.idw_indices[i][1]])]
\* transform: np.sum(self._idw_weights * values[self._idw_indices], axis=1),
\* or the empty array of an unfitted generator
transform(self, vals) ==
    IF ~self.is_fitted THEN <<>>
    ELSE [i \in 1..Len(self.idw_indices) |->
            RatioAdd(RatioTimes(WeightValue(self.idw_weights[i][1]),
                                Whole(vals[self.idw_indices[i][1]])),
                     RatioTimes(WeightValue(self.idw_weights[i][2]),
                                Whole(vals[self.idw_indices[i][2]])))]

(***************************************************************************)
(* The debounce timer (_hq_timer): a single-shot QTimer, held as the       *)
(* sequence of the remaining times (ms) of its pending timeouts.           *)
(***************************************************************************)
hq_delay == 300

TimerStop(t) == <<>>
\* QTimer.start() on a running timer stops it and starts it again.
TimerStart(t) == <<hq_delay>>

\* a bug on_data_changed could have: it leaves a running timer alone
KeepRunningTimer(t) == IF t = <<>> THEN <<hq_delay>> ELSE t
\* on_data_changed, steps 1 and 3: stop, then (after the fast pass, which
\* does not touch the timer) start.
RestartTimer(t) == TimerStart(TimerStop(t))

(***************************************************************************)
(* The adaptive quality adjustment (heatmap_layer.py:266-273).             *)
(***************************************************************************)
\* max(0.5, min(2.0, target / duration)) as a fraction <<num, den>>
ClampedRatio(target, duration) ==
    IF 2 * target < duration THEN <<1, 2>>
    ELSE IF target > 2 * duration THEN <<2, 1>>
    ELSE <<target, duration>>

\* int(grid_size * sqrt(ratio)): the largest n with n^2 <= grid_size^2 * ratio;
\* the clamped ratio keeps it between 0.7 and 1.5 times grid_size
ScaledBySqrt(grid_size, ratio) ==
    CHOOSE n \in ((7 * grid_size) \div 10)..((3 * grid_size) \div 2 + 1) :
        /\ n * n * ratio[2] <= grid_size * grid_size * ratio[1]
        /\ (n + 1) * (n + 1) * ratio[2] > grid_size * grid_size * ratio[1]

\* a bug the adjustment could have: the size is not clamped
NoClamp(n) == n
\* max(30, min(500, .))
ClampSize(n) == Max(30, Min(500, n))

(* int(alpha * new + (1 - alpha) * old) with alpha = 0.3, as IEEE-754 doubles  *)
(* compute it.  In units of u = 2^-54 the double 0.3 is 3K + 1 and the double  *)
(* 1 - 0.3 is 7K + 2, with K = (2^54 - 4) / 10 and K mod 2048 = 1638, so both  *)
(* products fall short of 3*new/10 and 7*old/10.  When 3*new + 7*old is a      *)
(* multiple of 10 the rounded sum can stay below the integer it should be, and *)
(* int() then yields one less.  Only residues modulo 2048 are needed.          *)
UlpBelow(tenths) ==
    LET e == CHOOSE k \in 0..9 : 10 * 2^(k + 1) >= tenths /\ (k = 0 \/ 10 * 2^k < tenths)
    IN  2^(e + 2)

\* x rounded to a multiple of U, ties to even, minus x; x given modulo 2U
RoundAdjust(x, U) ==
    LET r == x % U
        odd == (x \div U) % 2 = 1
    IN  IF 2 * r < U THEN -r
        ELSE IF 2 * r > U THEN U - r
        ELSE IF odd THEN U - r ELSE -r

DoubleFallsShort(new, old) ==
    /\ (3 * new + 7 * old) % 10 = 0
    /\ LET Ua == UlpBelow(3 * new)
           Ub == UlpBelow(7 * old)
           ra == RoundAdjust((new * ((3 * 1638 + 1) % 2048)) % (2 * Ua), Ua)
           rb == RoundAdjust((old * ((7 * 1638 + 2) % 2048)) % (2 * Ub), Ub)
       IN  2 * (((new + 4 * old) \div 5) - ra - rb) > UlpBelow(3 * new + 7 * old)

Smoothed(new, old) ==
    ((3 * new + 7 * old) \div 10) - (IF DoubleFallsShort(new, old) THEN 1 ELSE 0)

\* a bug the adjustment could have: the ratio is actual / target
InvertedGridSize(grid_size, target, duration) ==
    ClampSize(ScaledBySqrt(grid_size, ClampedRatio(duration, target)))
\* new_grid_size of a pass that rendered at grid_size
NewGridSize(grid_size, target, duration) ==
    ClampSize(ScaledBySqrt(grid_size, ClampedRatio(target, duration)))

\* a bug the adjustment could have: it scales the adaptive size, whatever
\* size the pass rendered at
AdaptedFromAdaptiveSize(adaptive, grid_size, target, duration) ==
    IF target > 0 /\ duration > 0
    THEN Smoothed(ClampSize(ScaledBySqrt(adaptive, ClampedRatio(target, duration))), adaptive)
    ELSE adaptive
\* self._grid_size after a pass that produced an image at grid_size in
\* duration ms (duration > 0: perf_counter differences of a completed render)
AdaptedGridSize(adaptive, grid_size, target, duration) ==
    IF target > 0 /\ duration > 0
    THEN Smoothed(NewGridSize(grid_size, target, duration), adaptive)
    ELSE adaptive

\* a bug the fast pass could have: a tenth of the grid size
low_res_tenth(adaptive) == Max(10, adaptive \div 10)
\* low_res_size = max(10, int(self._grid_size / 1.6)); int(g / 1.6) is
\* floor(5g / 8) for every g up to 500 in double arithmetic as well
low_res_size(adaptive) == Max(10, (5 * adaptive) \div 8)

(***************************************************************************)
(* The interpolators.                                                      *)
(***************************************************************************)
\* BoundaryPointGenerator.fit: unfitted below 2 points, else the ghost points
\* and IDW weights of (points, boundary)
BoundaryFit(pts, boundary) ==
    [is_fitted |-> Len(pts) >= 2 /\ Len(boundary) > 0, points |-> pts, boundary |-> boundary]

\* FastRBFInterpolator.fit: scipy's RBFInterpolator raises on a singular
\* system, which coinciding source points give; the exception is caught and
\* the interpolator left unfitted.
NoDuplicates(pts) == \A i, j \in 1..Len(pts) : i # j => pts[i] # pts[j]

\* a bug the fit could have: the failure is not noticed
RbfFitAlways(pts, boundary, grid_size) ==
    [is_fitted |-> TRUE, points |-> pts, boundary |-> boundary, grid_size |-> grid_size]
RbfFit(pts, boundary, grid_size) ==
    [is_fitted |-> NoDuplicates(pts), points |-> pts, boundary |-> boundary,
     grid_size |-> grid_size]

Unfitted == [is_fitted |-> FALSE, points |-> <<>>, boundary |-> EmptyPolygon]
UnfittedRbf == [is_fitted |-> FALSE, points |-> <<>>, boundary |-> EmptyPolygon, grid_size |-> 0]

(***************************************************************************)
(* HeatmapLayer.                                                           *)
(***************************************************************************)
NoImage == [present |-> FALSE, values |-> <<>>, operator |-> UnfittedRbf]
Image(vals, rbf) == [present |-> TRUE, values |-> vals, operator |-> rbf]

\* the cache keys; None is the empty sequence
points_hash(pts) == <<pts>>
boundary_hash(boundary) == <<Len(boundary), IF Len(boundary) = 0 THEN 0 ELSE boundary[1][1]>>

\* a bug the test could have: both conditions are asked for
NotEnoughDataAndNoBoundary(pts, boundary) == Len(pts) < 3 /\ Len(boundary) = 0
\* len(points) < 3 or self._boundary_shape.isEmpty()
NotEnoughData(pts, boundary) == Len(pts) < 3 \/ Len(boundary) = 0

\* a bug a pass could have: it emits renderingFinished on every return
EmitsOnEveryReturn(self, grid_size, refit, emissions) ==
    [self |-> self, grid_size |-> grid_size, refit |-> refit,
     emissions |-> IF emissions = <<>> THEN << <<0, grid_size>> >> ELSE emissions]
\* What a pass reports besides the layer: the grid size it was asked to
\* render at, whether it refitted, and the renderingFinished emissions.
PassResult(self, grid_size, refit, emissions) ==
    [self |-> self, grid_size |-> grid_size, refit |-> refit, emissions |-> emissions]

\* _generate_heatmap(grid_size = grid_size), taking duration ms when it
\* produces an image
generate_heatmap(self, P, V, grid_size, duration) ==
    LET vd == get_valid_data_labels(P, V, self.excluded_indices)
        pts == vd[1]
        vals == vd[2]
    IN
    IF NotEnoughData(pts, self.boundary_shape)
    THEN PassResult([self EXCEPT !.cached_image = NoImage], grid_size, FALSE, <<>>)
    ELSE
    LET geometry_changed ==
            \/ points_hash(pts) # self.last_points_hash
            \/ boundary_hash(self.boundary_shape) # self.last_boundary_hash
            \/ <<grid_size>> # self.last_grid_size
        fitted ==
            IF geometry_changed
            THEN [self EXCEPT
                    !.boundary_gen = BoundaryFit(pts, self.boundary_shape),
                    !.heatmap_rect = expanded_rect(boundingRect(self.boundary_shape),
                                                   grid_size),
                    !.rbf_interp = RbfFit(pts, self.boundary_shape, grid_size),
                    !.last_points_hash = points_hash(pts),
                    !.last_boundary_hash = boundary_hash(self.boundary_shape),
                    !.last_grid_size = <<grid_size>>]
            ELSE self
    IN
    IF ~fitted.rbf_interp.is_fitted
    THEN PassResult([fitted EXCEPT !.cached_image = NoImage], grid_size, geometry_changed, <<>>)
    ELSE PassResult(
            [fitted EXCEPT
                !.cached_image = Image(vals, fitted.rbf_interp),
                !.grid_size = AdaptedGridSize(self.grid_size, grid_size,
                                              self.target_render_time, duration)],
            grid_size,
            geometry_changed,
            << <<duration, grid_size>> >>)

\* a bug set_boundary_shape could have: it leaves the auto-boundary mode on
set_shape_keep_auto(self, shape) ==
    IF shape.recognized
    THEN [self |-> [self EXCEPT !.boundary_shape = shape.polygon], raised |-> FALSE]
    ELSE [self |-> [self EXCEPT !.auto_boundary = FALSE], raised |-> TRUE]
\* set_boundary_shape up to its call of on_data_changed: the auto-boundary
\* mode is switched off first, then the shape is converted to a polygon, and
\* a shape of no known type raises TypeError
set_boundary_shape(self, shape) ==
    LET entered == [self EXCEPT !.auto_boundary = FALSE]
    IN  IF shape.recognized
        THEN [self |-> [entered EXCEPT !.boundary_shape = shape.polygon], raised |-> FALSE]
        ELSE [self |-> entered, raised |-> TRUE]

\* on_data_changed
on_data_changed(self, P, V, duration) ==
    LET pts == get_valid_data_labels(P, V, self.excluded_indices)[1]
        s1 == IF self.auto_boundary
              THEN [self EXCEPT !.boundary_shape = AutoBoundary(pts)]
              ELSE self
        pass == generate_heatmap(s1, P, V, low_res_size(s1.grid_size), duration)
    IN  [pass EXCEPT !.self.hq_timer = RestartTimer(s1.hq_timer)]

\* the target_render_time setter: float(ms), then on_data_changed()
set_target_render_time(self, ms, P, V, duration) ==
    on_data_changed([self EXCEPT !.target_render_time = ms], P, V, duration)

\* the quality getter
quality(self) ==
    IF self.target_render_time <= 20 THEN "low"
    ELSE IF self.target_render_time <= 50 THEN "medium"
    ELSE "high"

\* An argument of the quality setter: a string or an integer.
StrArg(s) == [isstr |-> TRUE, s |-> s, i |-> 0]
IntArg(i) == [isstr |-> FALSE, s |-> "", i |-> i]
\* str.lower() on the strings the setter is called with
lower(s) ==
    CASE s = "LOW" -> "low"
      [] s = "Medium" -> "medium"
      [] s = "HIGH" -> "high"
      [] OTHER -> s
\* what the setter did: ignored the value, or ran on_data_changed
QualityIgnored(self) == [ignored |-> TRUE, pass |-> PassResult(self, 0, FALSE, <<>>)]
QualitySet(pass) == [ignored |-> FALSE, pass |-> pass]
\* a bug the setter could have: it stores the target and renders nothing
set_quality_without_render(self, value, P, V, duration) ==
    LET v == IF value.isstr THEN StrArg(lower(value.s)) ELSE value
        store(ms) == QualitySet(PassResult([self EXCEPT !.target_render_time = ms],
                                           low_res_size(self.grid_size), FALSE, <<>>))
    IN  IF v \in {StrArg("low"), IntArg(0)} THEN store(20)
        ELSE IF v \in {StrArg("medium"), IntArg(1)} THEN store(50)
        ELSE IF v \in {StrArg("high"), IntArg(2)} THEN store(100)
        ELSE QualityIgnored(self)
\* the quality setter
set_quality(self, value, P, V, duration) ==
    LET v == IF value.isstr THEN StrArg(lower(value.s)) ELSE value
    IN  IF v \in {StrArg("low"), IntArg(0)}
        THEN QualitySet(set_target_render_time(self, 20, P, V, duration))
        ELSE IF v \in {StrArg("medium"), IntArg(1)}
        THEN QualitySet(set_target_render_time(self, 50, P, V, duration))
        ELSE IF v \in {StrArg("high"), IntArg(2)}
        THEN QualitySet(set_target_render_time(self, 100, P, V, duration))
        ELSE QualityIgnored(self)

\* a bug the refinement could have: it renders at the reduced size
perform_low_update(self, P, V, duration) ==
    generate_heatmap(self, P, V, low_res_size(self.grid_size), duration)
\* _perform_hq_update
perform_hq_update(self, P, V, duration) ==
    generate_heatmap(self, P, V, self.grid_size, duration)

(***************************************************************************)
(* InterpolatorCache (fieldview.utils.grid_manager): an LRU cache from the *)
(* geometry fingerprint to a fitted interpolator pair.  Objects are named  *)
(* by the order of their creation; entries run from the least to the most  *)
(* recently accessed.                                                      *)
(***************************************************************************)
max_size == 2
MaxFits == 5            \* fits one cache performs in one run

\* a bug the key could have: the grid size is left out
KeyWithoutGridSize(grid_size, pts, boundary) == <<0, points_hash(pts), boundary_hash(boundary)>>
\* the key: grid size, hash of the point coordinates, boundary signature
CacheKey(grid_size, pts, boundary) == <<grid_size, points_hash(pts), boundary_hash(boundary)>>

NoGet == [args |-> <<>>, obj |-> 0, hit |-> FALSE, evicted |-> FALSE, before |-> 0, others |-> {}]

InterpolatorCache(capacity) ==
    [ max_size |-> capacity, entries |-> <<>>, fits |-> 0,
      returned |-> <<>>, evicted |-> {}, got |-> NoGet ]

Position(entries, key) ==
    IF \E i \in 1..Len(entries) : entries[i].key = key
    THEN CHOOSE i \in 1..Len(entries) : entries[i].key = key
    ELSE 0

Without(entries, i) == [j \in 1..(Len(entries) - 1) |-> IF j < i THEN entries[j] ELSE entries[j + 1]]

\* what the callers of earlier calls hold: the object last returned for args
LastReturned(self, args) ==
    IF \E i \in 1..Len(self.returned) : self.returned[i].args = args
    THEN (CHOOSE r \in {self.returned[i] : i \in 1..Len(self.returned)} : r.args = args).obj
    ELSE 0

Remember(returned, args, obj) ==
    LET kept == SelectSeq(returned, LAMBDA r : r.args # args)
    IN  Append(kept, [args |-> args, obj |-> obj])

\* a bug the cache could have: a hit does not count as an access
NoTouch(entries, at) == entries
\* a hit moves the entry to the most recently accessed end
Touch(entries, at) == Append(Without(entries, at), entries[at])

\* get_interpolator: a hit moves the entry to the most recent end and returns
\* its objects; a miss fits a new pair, inserts it and evicts the least
\* recently accessed entry when the cache is over capacity
get_interpolator(self, grid_size, pts, boundary) ==
    LET key == CacheKey(grid_size, pts, boundary)
        at == Position(self.entries, key)
        hit == at # 0
        obj == IF hit THEN self.entries[at].obj ELSE self.fits + 1
        moved == IF hit THEN Touch(self.entries, at)
                 ELSE Append(self.entries, [key |-> key, obj |-> obj])
        over == Len(moved) > self.max_size
        dropped == IF over THEN {moved[1].key} ELSE {}
        args == <<grid_size, pts, boundary>>
    IN  [ self EXCEPT
            !.entries = IF over THEN Tail(moved) ELSE moved,
            !.fits = IF hit THEN @ ELSE @ + 1,
            !.returned = Remember(@, args, obj),
            !.evicted = (@ \ {key}) \cup dropped,
            !.got = [ args |-> args, obj |-> obj, hit |-> hit,
                      evicted |-> key \in self.evicted,
                      before |-> LastReturned(self, args),
                      others |-> {self.returned[i].obj : i \in
                                    {j \in 1..Len(self.returned) : self.returned[j].args # args}} ] ]

(***************************************************************************)
(* Colours: the colour range and HeatmapLayer._array_to_qimage.  A grid is *)
(* the sequence of its cells, a cell a number or not-a-number; a pixel is  *)
(* its alpha and, when opaque, the index of its entry in the 256-entry     *)
(* lookup table (every entry of which is opaque).                          *)
(***************************************************************************)
NaN == [nan |-> TRUE, v |-> 0]
Number(v) == [nan |-> FALSE, v |-> v]

Transparent == [alpha |-> 0, lut |-> 0]
Opaque(index) == [alpha |-> 255, lut |-> index]

AutoRange == [auto |-> TRUE, min |-> 0, max |-> 0]
Range(lo, hi) == [auto |-> FALSE, min |-> lo, max |-> hi]

\* a bug the validation could have: equal bounds pass
set_inverted_rejected(self, lo, hi) ==
    IF ~lo.none /\ ~hi.none /\ lo.v > hi.v
    THEN [self |-> self, raised |-> TRUE]
    ELSE [self |-> [self EXCEPT !.color_range =
                        IF lo.none \/ hi.none THEN AutoRange ELSE Range(lo.v, hi.v)],
          raised |-> FALSE]
\* set_color_range(min, max): (None, None) clears the range to auto; explicit
\* bounds need min < max, else ValueError and nothing is stored
set_color_range(self, lo, hi) ==
    IF ~lo.none /\ ~hi.none /\ lo.v >= hi.v
    THEN [self |-> self, raised |-> TRUE]
    ELSE [self |-> [self EXCEPT !.color_range =
                        IF lo.none \/ hi.none THEN AutoRange ELSE Range(lo.v, hi.v)],
          raised |-> FALSE]

\* np.nan_to_num(Z, nan=-1)
nan_to_num(Z) == [i \in 1..Len(Z) |-> IF Z[i].nan THEN -1 ELSE Z[i].v]

\* (np.clip(z / max_val, 0.0, 1.0) * 255).astype(np.uint8)
LutIndex(z, max_val) ==
    IF max_val > 0
    THEN (IF z <= 0 THEN 0 ELSE IF z >= max_val THEN 255 ELSE (255 * z) \div max_val)
    ELSE (IF z >= 0 THEN 0 ELSE IF z <= max_val THEN 255 ELSE (255 * z) \div max_val)

\* _array_to_qimage(Z): the pixels of the image
array_to_qimage(self, Z) ==
    LET Z_norm == nan_to_num(Z)
        top == SetMax({Z_norm[i] : i \in 1..Len(Z)})
        max_val == IF top = 0 THEN 1 ELSE top
    IN  [i \in 1..Len(Z) |->
            IF Z_norm[i] = -1 THEN Transparent ELSE Opaque(LutIndex(Z_norm[i], max_val))]

NoQImage ==
    [ Z |-> <<>>, pixels |-> <<>>, range |-> AutoRange,
      call |-> [lo |-> [none |-> TRUE, v |-> 0], hi |-> [none |-> TRUE, v |-> 0],
                raised |-> FALSE, before |-> AutoRange, after |-> AutoRange] ]

(***************************************************************************)
(* The layer with its container: the inputs of the renderer model.         *)
(***************************************************************************)
MaxChanges == 2         \* calls that change data, boundary or settings in one run
TicksPerDelay == 3      \* clock steps in one hq_delay

TickMs == hq_delay \div TicksPerDelay

Durations == {10, 99, 400}      \* measured render times (ms)
Targets == {80, 99}             \* target_render_time settings (ms)
ThreePoints == [points |-> << <<0, 0>>, <<10, 0>>, <<0, 10>> >>, values |-> <<1, 2, 1>>]
DataSets == { [points |-> << <<0, 0>> >>, values |-> <<1>>], ThreePoints }
Shapes == { EmptyPolygon, RectPolygon(Rect(-10, -10, 30, 30)), RectPolygon(Rect(-10, -10, 40, 40)) }
\* the shapes set_boundary_shape is called with: a QRectF or QPolygonF, which
\* it turns into a polygon, or an object of another type
ShapeArgs ==
    {[recognized |-> TRUE, polygon |-> s] : s \in Shapes}
        \cup {[recognized |-> FALSE, polygon |-> EmptyPolygon]}
\* values the quality setter is called with
QualityArgs == {StrArg("low"), StrArg("medium"), StrArg("high"), StrArg("HIGH"), StrArg("ultra"), IntArg(1), IntArg(3)}
ExcludedSets == { {}, {0} }

\* the fields HeatmapLayer.__init__ sets before its first on_data_changed()
NewLayer ==
    [ boundary_shape |-> EmptyPolygon,
      auto_boundary |-> TRUE,
      grid_size |-> 50,
      target_render_time |-> 100,
      cached_image |-> NoImage,
      heatmap_rect |-> NullExpanded,
      hq_timer |-> <<>>,
      boundary_gen |-> Unfitted,
      rbf_interp |-> UnfittedRbf,
      last_points_hash |-> <<>>,
      last_boundary_hash |-> <<>>,
      last_grid_size |-> <<>>,
      excluded_indices |-> {},
      color_range |-> AutoRange ]

(***************************************************************************)
(* History: what the last change and the last pass did.                    *)
(***************************************************************************)
ValidPoints(P, V, self) == get_valid_data(P, V, self.excluded_indices)[1]
ValidValues(P, V, self) == get_valid_data(P, V, self.excluded_indices)[2]

PassRecord(kind, before, pass, duration, elapsed, P, V) ==
    [ kind |-> kind,
      grid_size |-> pass.grid_size,
      adaptive_before |-> before.grid_size,
      adaptive_after |-> pass.self.grid_size,
      target |-> before.target_render_time,
      duration |-> IF pass.emissions = <<>> THEN 0 ELSE duration,
      refit |-> pass.refit,
      image |-> pass.self.cached_image.present,
      emissions |-> pass.emissions,
      elapsed |-> elapsed,
      few_points |-> Len(ValidPoints(P, V, before)) < 3,
      no_boundary |-> pass.self.boundary_shape = EmptyPolygon,
      points |-> ValidPoints(P, V, before),
      boundary |-> pass.self.boundary_shape ]

\* the last set_boundary_shape call that raised: the layer before and after it
NoShapeCall == [raised |-> FALSE, before |-> NewLayer, after |-> NewLayer]

\* after a call that ran on_data_changed: before is the layer on entry (with
\* the setting the call itself changed), P0, V0 the data before the call
AfterChange(kind, before, pass, duration, P0, V0, P, V) ==
    [ sinceChange |-> 0,
      changes |-> Min(MaxChanges, hist.changes + 1),
      hqRuns |-> 0,
      interrupted |-> layer.hq_timer # <<>> /\ layer.hq_timer[1] < hq_delay,
      change |-> [ kind |-> kind,
                   values_only |-> /\ ValidPoints(P0, V0, layer) = ValidPoints(P, V, before)
                                   /\ ValidValues(P0, V0, layer) # ValidValues(P, V, before)
                                   /\ layer.boundary_shape = pass.self.boundary_shape,
                   had_image |-> layer.cached_image.present ],
      pass |-> PassRecord("fast", before, pass, duration, 0, P, V),
      quality |-> <<>>,
      explicit |-> IF kind = "boundary" THEN <<before.boundary_shape>> ELSE hist.explicit,
      shape_call |-> NoShapeCall ]

\* the state a layer is in when constructed on a container holding P, V:
\* __init__ ends with on_data_changed()
Constructed(P, V, duration) ==
    LET pass == on_data_changed(NewLayer, P, V, duration)
    IN  /\ points = P
        /\ values = V
        /\ lastCall = [op |-> "init", raised |-> FALSE, emitted |-> 0, changed |-> FALSE]
        /\ layer = pass.self
        /\ hist = [ sinceChange |-> 0, changes |-> 0, hqRuns |-> 0, interrupted |-> FALSE,
                    change |-> [kind |-> "init", values_only |-> FALSE, had_image |-> FALSE],
                    pass |-> PassRecord("fast", NewLayer, pass, duration, 0, P, V),
                    quality |-> <<>>,
                    explicit |-> <<>>,
                    shape_call |-> NoShapeCall ]
        /\ cache = InterpolatorCache(max_size)
        /\ qimage = NoQImage
        /\ gen = NewGenerator
        /\ dlayers = NewDataLayers

(***************************************************************************)
(* Actions.  A container call emits dataChanged, whose slot is the layer's *)
(* on_data_changed: it runs before the call returns.                       *)
(***************************************************************************)
DataChanged(op, res) ==
    /\ res.emitted = 1
    /\ Fits(res)
    /\ points' = res.points
    /\ values' = res.values
    /\ lastCall' = [op |-> op, raised |-> res.raised, emitted |-> res.emitted,
                    changed |-> (res.points # points \/ res.values # values)]
    /\ \E d \in Durations :
         LET pass == on_data_changed(layer, res.points, res.values, d)
         IN  /\ layer' = pass.self
             /\ hist' = AfterChange("data", layer, pass, d, points, values, res.points, res.values)
    /\ UNCHANGED <<cache, qimage, gen, dlayers>>

SetData ==
    \E ds \in DataSets :
        DataChanged("set_data", set_data(points, values, Array(TRUE, ds.points), Array(TRUE, ds.values)))

AddPoints ==
    \E c \in Coords, v \in Values :
        DataChanged("add_points", add_points(points, values, Array(TRUE, <<c>>), Array(TRUE, <<v>>)))

UpdateValue ==
    \E i \in 0..(Len(points) - 1), v \in Values :
        DataChanged("update_point", update_point(points, values, i, Opt("some", v), Opt("none", <<0, 0>>)))

UpdatePoint ==
    \E i \in 0..(Len(points) - 1), c \in Coords :
        DataChanged("update_point", update_point(points, values, i, Opt("none", 0), Opt("some", c)))

RemovePoints ==
    \E i \in 0..(Len(points) - 1) :
        DataChanged("remove_points", remove_points(points, values, {i}))

Clear == DataChanged("clear", clear(points, values))

\* set_boundary_shape with a QPolygonF (or a QRectF, converted)
SetBoundaryShape ==
    \E shape \in ShapeArgs, d \in Durations :
        LET call == set_boundary_shape(layer, shape)
            pass == on_data_changed(call.self, points, values, d)
        IN  /\ IF call.raised
               THEN /\ layer' = call.self
                    /\ hist' = [hist EXCEPT
                                   !.changes = Min(MaxChanges, @ + 1),
                                   !.quality = <<>>,
                                   !.shape_call = [raised |-> TRUE, before |-> layer,
                                                   after |-> call.self]]
               ELSE /\ layer' = pass.self
                    /\ hist' = AfterChange("boundary", call.self, pass, d,
                                           points, values, points, values)
            /\ UNCHANGED <<points, values, lastCall, cache, qimage, gen, dlayers>>

\* the target_render_time setter
SetTargetRenderTime ==
    \E ms \in Targets, d \in Durations :
        LET before == [layer EXCEPT !.target_render_time = ms]
            pass == set_target_render_time(layer, ms, points, values, d)
        IN  /\ layer' = pass.self
            /\ hist' = AfterChange("target", before, pass, d, points, values, points, values)
            /\ UNCHANGED <<points, values, lastCall, cache, qimage, gen, dlayers>>

\* the quality setter; a value it does not know is ignored with a warning
SetQuality ==
    \E value \in QualityArgs, d \in Durations :
        LET call == set_quality(layer, value, points, values, d)
            before == [layer EXCEPT !.target_render_time = call.pass.self.target_render_time]
        IN  /\ IF call.ignored
               THEN /\ layer' = layer
                    /\ hist' = [hist EXCEPT !.changes = Min(MaxChanges, @ + 1),
                                            !.quality = <<value>>]
               ELSE /\ layer' = call.pass.self
                    /\ hist' = [AfterChange("quality", before, call.pass, d,
                                            points, values, points, values)
                                    EXCEPT !.quality = <<value>>]
            /\ UNCHANGED <<points, values, lastCall, cache, qimage, gen, dlayers>>

\* DataLayer.set_excluded_indices: update_layer() only schedules a repaint
SetExcludedIndices ==
    \E e \in ExcludedSets :
        /\ e # layer.excluded_indices
        /\ layer' = [layer EXCEPT !.excluded_indices = e]
        /\ UNCHANGED <<points, values, lastCall, hist, cache, qimage, gen, dlayers>>

\* time passes while the timer runs; a due timeout fires first
Tick ==
    /\ layer.hq_timer # <<>>
    /\ \A i \in 1..Len(layer.hq_timer) : layer.hq_timer[i] > 0
    /\ layer' = [layer EXCEPT !.hq_timer = [i \in 1..Len(@) |-> Max(0, @[i] - TickMs)]]
    /\ hist' = [hist EXCEPT !.sinceChange = Min(hq_delay, @ + TickMs)]
    /\ UNCHANGED <<points, values, lastCall, cache, qimage, gen, dlayers>>

\* the single-shot timer's timeout: _perform_hq_update
HqTimeout ==
    /\ layer.hq_timer # <<>>
    /\ layer.hq_timer[1] = 0
    /\ \E d \in Durations :
         LET before == [layer EXCEPT !.hq_timer = Tail(@)]
             pass == perform_hq_update(before, points, values, d)
         IN  /\ layer' = pass.self
             /\ hist' = [hist EXCEPT
                            !.hqRuns = Min(2, @ + 1),
                            !.pass = PassRecord("hq", before, pass, d, hist.sinceChange,
                                                points, values)]
    /\ UNCHANGED <<points, values, lastCall, cache, qimage, gen, dlayers>>

(***************************************************************************)
(* Specifications.                                                         *)
(***************************************************************************)
\* an empty container and a layer just constructed on it
Init == Constructed(<<>>, <<>>, 0)

MayChange == hist.changes < MaxChanges

Next ==
    \/ MayChange /\ SetData
    \/ MayChange /\ AddPoints
    \/ MayChange /\ UpdateValue
    \/ MayChange /\ UpdatePoint
    \/ MayChange /\ RemovePoints
    \/ MayChange /\ Clear
    \/ MayChange /\ SetBoundaryShape
    \/ MayChange /\ SetTargetRenderTime
    \/ MayChange /\ SetQuality
    \/ SetExcludedIndices
    \/ Tick
    \/ HqTimeout

Spec == Init /\ [][Next]_vars

\* bursts of data and boundary changes under a running event loop: time
\* passes and a due timeout is delivered
NextLive ==
    \/ MayChange /\ SetData
    \/ MayChange /\ UpdateValue
    \/ MayChange /\ Clear
    \/ MayChange /\ SetBoundaryShape
    \/ Tick
    \/ HqTimeout

SpecLive == Init /\ [][NextLive]_vars /\ WF_vars(Tick) /\ WF_vars(HqTimeout)

(***************************************************************************)
(* The adaptive grid size over any number of renders of the same points.   *)
(***************************************************************************)
InitAdaptive == \E d \in Durations : Constructed(ThreePoints.points, ThreePoints.values, d)

\* update_point(0, value=v) with a value the point does not have yet
Revalue ==
    \E v \in Values :
        /\ v # values[1]
        /\ DataChanged("update_point", update_point(points, values, 0, Opt("some", v), Opt("none", <<0, 0>>)))

NextAdaptive ==
    \/ Revalue
    \/ Tick
    \/ HqTimeout

SpecAdaptive == InitAdaptive /\ [][NextAdaptive]_vars

(***************************************************************************)
(* A boundary point generator on its own: fits on any points and polygon.   *)
(***************************************************************************)
SourceSets ==
    { << <<0, 0>> >>,
      << <<0, 0>>, <<10, 0>> >>,
      << <<0, 0>>, <<0, 0>> >>,
      << <<0, 0>>, <<10, 0>>, <<0, 10>> >> }
Triangle == << <<0, 0>>, <<30, 0>>, <<0, 40>> >>
OnePoint == << <<0, 0>> >>
\* two loops through one vertex, as a path of two subpaths fills
TwoLoops == << <<0, 0>>, <<30, 0>>, <<0, 40>>, <<0, 0>>, <<-30, 0>>, <<0, -40>>, <<0, 0>> >>
Polygons ==
    { EmptyPolygon, OnePoint, TwoLoops,
      Triangle, Append(Triangle, Triangle[1]),
      RectPolygon(Rect(0, 0, 20, 10)) }
SegmentLengths == {<<>>, <<20>>}

Fit ==
    \E pts \in SourceSets, boundary_shape \in Polygons, length \in SegmentLengths :
        /\ gen' = fit(gen, pts, boundary_shape, length)
        /\ UNCHANGED <<points, values, lastCall, layer, hist, cache, qimage, dlayers>>

NextBoundary == Fit

SpecBoundary == Init /\ [][NextBoundary]_vars

(***************************************************************************)
(* The weights of a generator: fits whose distances are whole numbers, and  *)
(* transforms of value vectors aligned with the source points.              *)
(***************************************************************************)
MaxTransforms == 2      \* transforms after one fit

WeightSources ==
    { << <<0, 0>> >>,
      << <<0, 0>>, <<30, 0>> >>,
      << <<0, 0>>, <<0, 0>> >>,
      << <<0, 0>>, <<30, 0>>, <<0, 40>> >> }
\* there and back along one line
Segment == << <<0, 0>>, <<30, 0>>, <<0, 0>> >>
WeightShapes ==
    { <<Append(Triangle, Triangle[1]), <<50>> >>, <<OnePoint, <<50>> >>,
      <<Segment, <<50>> >>, <<Segment, <<20>> >> }

WeightFit ==
    \E pts \in WeightSources, shape \in WeightShapes :
        /\ gen' = fit(gen, pts, shape[1], shape[2])
        /\ UNCHANGED <<points, values, lastCall, layer, hist, cache, qimage, dlayers>>

Transform ==
    /\ gen.transform.count < MaxTransforms
    /\ \E vals \in [1..Len(gen.fit.points) -> Values] :
         gen' = [gen EXCEPT !.transform = [ran |-> TRUE, values |-> vals,
                                           result |-> transform(gen, vals),
                                           count |-> @.count + 1,
                                           previous |-> @.values]]
    /\ UNCHANGED <<points, values, lastCall, layer, hist, cache, qimage, dlayers>>

NextWeights ==
    \/ WeightFit
    \/ Transform

SpecWeights == Init /\ [][NextWeights]_vars

(***************************************************************************)
(* The container on its own: every call, well-formed or not.               *)
(***************************************************************************)
Call(op, res) ==
    /\ Fits(res)
    /\ points' = res.points
    /\ values' = res.values
    /\ lastCall' = [op |-> op, raised |-> res.raised, emitted |-> res.emitted,
                    changed |-> (res.points # points \/ res.values # values)]
    /\ UNCHANGED <<layer, hist, cache, qimage, gen, dlayers>>

DC_set_data == \E p \in PointArgs, v \in ValueArgs : Call("set_data", set_data(points, values, p, v))
DC_add_points == \E p \in PointArgs, v \in ValueArgs : Call("add_points", add_points(points, values, p, v))
DC_update_point ==
    \E i \in -1..MaxPoints, value \in ValueOpts, point \in PointOpts :
        Call("update_point", update_point(points, values, i, value, point))
DC_remove_points ==
    \E indices \in SUBSET (-1..MaxPoints) :
        /\ Cardinality(indices) <= MaxArg
        /\ Call("remove_points", remove_points(points, values, indices))
DC_clear == Call("clear", clear(points, values))

NextData == DC_set_data \/ DC_add_points \/ DC_update_point \/ DC_remove_points \/ DC_clear

SpecData == Init /\ [][NextData]_vars

(***************************************************************************)
(* Two DataLayers on one container: the calls on their excluded sets.      *)
(***************************************************************************)
LayerCall(l, op, did) ==
    /\ dlayers.calls < MaxCalls
    /\ dlayers' = [excluded |-> Assign(dlayers.excluded, l, did.excluded),
                   call |-> [layer |-> l, op |-> op, updated |-> did.updated,
                             returned |-> did.returned],
                   calls |-> dlayers.calls + 1]
    /\ UNCHANGED <<points, values, lastCall, layer, hist, cache, qimage, gen>>

DL_set_excluded_indices ==
    \E l \in DataLayers, indices \in SeqsUpTo(Indices, 2) :
        LayerCall(l, "set_excluded_indices",
                  set_excluded_indices(dlayers.excluded[l], indices))
DL_add_excluded_index ==
    \E l \in DataLayers, index \in Indices :
        LayerCall(l, "add_excluded_index", add_excluded_index(dlayers.excluded[l], index))
DL_remove_excluded_index ==
    \E l \in DataLayers, index \in Indices :
        LayerCall(l, "remove_excluded_index", remove_excluded_index(dlayers.excluded[l], index))
DL_clear_excluded_indices ==
    \E l \in DataLayers :
        LayerCall(l, "clear_excluded_indices", clear_excluded_indices(dlayers.excluded[l]))
DL_get_valid_data ==
    \E l \in DataLayers :
        LayerCall(l, "get_valid_data",
                  Did(dlayers.excluded[l], FALSE,
                      get_valid_data(points, values, dlayers.excluded[l])))

\* the container is given data, which the layers are notified of
LoadData ==
    \E ds \in DataSets :
        Call("set_data", set_data(points, values, Array(TRUE, ds.points), Array(TRUE, ds.values)))

NextLayers ==
    \/ LoadData
    \/ DL_set_excluded_indices
    \/ DL_add_excluded_index
    \/ DL_remove_excluded_index
    \/ DL_clear_excluded_indices
    \/ DL_get_valid_data

SpecLayers == Init /\ [][NextLayers]_vars

(***************************************************************************)
(* The interpolator cache on its own.                                      *)
(***************************************************************************)
CacheGrids == {10, 20, 30}
CachePoints == { ThreePoints.points, << <<0, 0>>, <<10, 0>>, <<10, 10>> >> }
CacheBoundaries == { RectPolygon(Rect(0, 0, 10, 10)) }

GetInterpolator ==
    \E g \in CacheGrids, p \in CachePoints, b \in CacheBoundaries :
        /\ cache.fits < MaxFits
        /\ cache' = get_interpolator(cache, g, p, b)
        /\ UNCHANGED <<points, values, lastCall, layer, hist, qimage, gen, dlayers>>

NextCache == GetInterpolator

SpecCache == Init /\ [][NextCache]_vars

(***************************************************************************)
(* The colour range and the image conversion on their own.                 *)
(***************************************************************************)
MaxCells == 2           \* cells of a grid

GridValues == {NaN, Number(-1), Number(0), Number(5), Number(10)}
Grids == SeqsUpTo(GridValues, MaxCells) \ {<<>>}
Bound(none, v) == [none |-> none, v |-> v]
RangeArgs == { <<Bound(TRUE, 0), Bound(TRUE, 0)>>, <<Bound(FALSE, 2), Bound(FALSE, 8)>>,
               <<Bound(FALSE, 0), Bound(FALSE, 5)>>, <<Bound(FALSE, 5), Bound(FALSE, 5)>>,
               <<Bound(FALSE, 8), Bound(FALSE, 2)>> }

SetColorRange ==
    \E r \in RangeArgs :
        LET res == set_color_range(layer, r[1], r[2])
        IN  /\ layer' = res.self
            /\ qimage' = [qimage EXCEPT !.call = [lo |-> r[1], hi |-> r[2], raised |-> res.raised,
                                                  before |-> layer.color_range,
                                                  after |-> res.self.color_range]]
            /\ UNCHANGED <<points, values, lastCall, hist, cache, gen, dlayers>>

ArrayToQImage ==
    \E Z \in Grids :
        /\ qimage' = [qimage EXCEPT !.Z = Z, !.pixels = array_to_qimage(layer, Z),
                                    !.range = layer.color_range]
        /\ UNCHANGED <<points, values, lastCall, layer, hist, cache, gen, dlayers>>

NextImage == SetColorRange \/ ArrayToQImage

SpecImage == Init /\ [][NextImage]_vars

(***************************************************************************)
(* Properties.                                                             *)
(***************************************************************************)
ImagePass == hist.pass.image /\ hist.pass.target > 0 /\ hist.pass.duration > 0

\* C1: after any sequence of container calls, raising ones included, the
\* stored point array and value array have the same length.  (The container
\* in the source keeps no label array.)
C1_EqualLengths == Len(points) = Len(values)

\* C2: a container call that changed the stored data emitted dataChanged
\* exactly once.
C2_ChangeEmitsOnce == lastCall.changed => lastCall.emitted = 1

C10_SameKeySameObject ==
    /\ (cache.got.before # 0 /\ ~cache.got.evicted) => cache.got.obj = cache.got.before
    /\ cache.got.obj \notin cache.got.others
    /\ (cache.got.args # <<>> /\ ~cache.got.hit) => cache.got.obj = cache.fits

\* a second call with the same arguments was a hit, after calls with others
C10_Witness ==
    /\ cache.got.hit
    /\ cache.got.before # 0
    /\ cache.got.obj = cache.got.before
    /\ cache.got.others # {}

\* C11: the cache holds at most max_size entries, and they are the most
\* recently accessed keys, a hit counting as an access; a key evicted since
\* it was last returned gets a new object.
C11_EvictsLeastRecentlyUsed ==
    LET n == Len(cache.entries)
        seen == Len(cache.returned)
    IN  /\ n <= max_size
        /\ n = Min(max_size, seen)
        /\ \A i \in 1..n :
             LET a == cache.returned[seen - n + i].args
             IN  cache.entries[i].key = CacheKey(a[1], a[2], a[3])
        /\ (cache.got.before # 0 /\ cache.got.evicted) =>
               (~cache.got.hit /\ cache.got.obj # cache.got.before)

\* get(A), get(B), get(A), get(C): the objects were created in the order
\* A, B, C; B is the least recently accessed and A and C are held
C11_Witness ==
    /\ Len(cache.returned) = 3
    /\ cache.returned[1].obj = 2
    /\ cache.returned[2].obj = 1
    /\ cache.returned[3].obj = 3
    /\ Len(cache.entries) = 2
    /\ cache.entries[1].obj = 1
    /\ cache.entries[2].obj = 3

\* C12: under an explicit range (min, max) a cell holding the number v gets
\* the lookup-table entry floor(clamp((v - min) / (max - min), 0, 1) * 255);
\* under the auto range the least number of the grid gets entry 0 and the
\* greatest entry 255.
C12_RangeDrivesLut ==
    LET Z == qimage.Z
        numbers == {Z[i].v : i \in {j \in 1..Len(Z) : ~Z[j].nan}}
        lo == qimage.range.min
        hi == qimage.range.max
    IN  \A i \in 1..Len(Z) :
            ~Z[i].nan =>
                IF qimage.range.auto
                THEN (SetMin(numbers) < SetMax(numbers)) =>
                        /\ Z[i].v = SetMin(numbers) => qimage.pixels[i].lut = 0
                        /\ Z[i].v = SetMax(numbers) => qimage.pixels[i].lut = 255
                ELSE qimage.pixels[i].lut =
                        IF Z[i].v <= lo THEN 0
                        ELSE IF Z[i].v >= hi THEN 255
                        ELSE (255 * (Z[i].v - lo)) \div (hi - lo)

\* C13: set_color_range with explicit bounds min >= max raises and the
\* range configured before stays in effect.
C13_BadRangeRejected ==
    (~qimage.call.lo.none /\ ~qimage.call.hi.none /\ qimage.call.lo.v >= qimage.call.hi.v) =>
        /\ qimage.call.raised
        /\ qimage.call.after = qimage.call.before
        /\ layer.color_range = qimage.call.before

\* equal bounds were rejected while an explicit range was configured
C13_Witness ==
    /\ qimage.call.raised
    /\ qimage.call.lo.v = qimage.call.hi.v
    /\ ~layer.color_range.auto

C16_RejectedShapeChangesNothing ==
    hist.shape_call.raised =>
        /\ hist.shape_call.after.boundary_shape = hist.shape_call.before.boundary_shape
        /\ hist.shape_call.after.auto_boundary = hist.shape_call.before.auto_boundary
        /\ hist.shape_call.after.cached_image = hist.shape_call.before.cached_image
        /\ hist.shape_call.after.hq_timer = hist.shape_call.before.hq_timer
        /\ hist.shape_call.after.grid_size = hist.shape_call.before.grid_size

\* C17: setting the quality to a named preset does what setting the target
\* render time to 20, 50 or 100 ms does: the layer is the one the target
\* setter leaves, a fast pass at the reduced size has run, one full delay of
\* the refinement timer is pending, and the getter reports the preset.
PresetMs(name) == CASE name = "low" -> 20 [] name = "medium" -> 50 [] name = "high" -> 100
IsVertex(q, v) == q[1][1] = v[1] * q[1][2] /\ q[2][1] = v[2] * q[2][2]
\* q = p1 + t (p2 - p1) for some t with 0 <= t < 1
OnEdge(q, p1, p2) ==
    LET vx == q[1][1] - p1[1] * q[1][2]
        vy == q[2][1] - p1[2] * q[2][2]
        ex == p2[1] - p1[1]
        ey == p2[2] - p1[2]
        dot == vx * ex * q[2][2] + vy * ey * q[1][2]
    IN  IF ex = 0 /\ ey = 0 THEN vx = 0 /\ vy = 0
        ELSE /\ vx * ey * q[2][2] = vy * ex * q[1][2]
             /\ 0 <= dot
             /\ dot < (ex * ex + ey * ey) * q[1][2] * q[2][2]
Emitted(out, v) == Cardinality({k \in 1..Len(out) : IsVertex(out[k], v)})
AllOnEdges(out, poly) ==
    \A k \in 1..Len(out) : \E i \in 1..(Len(poly) - 1) : OnEdge(out[k], poly[i], poly[i + 1])
\* the fit of at least 2 points on a closed polygon
ClosedFit == ~gen.raised /\ Len(gen.fit.points) >= 2 /\ isClosed(gen.fit.boundary_shape)
\* vertices before the closing one pairwise distinct, none on another edge
SimplePolygon(poly) ==
    /\ Len(poly) >= 3
    /\ \A i, j \in 1..(Len(poly) - 1) :
         i # j => /\ poly[i] # poly[j]
                  /\ ~OnEdge(<< <<poly[j][1], 1>>, <<poly[j][2], 1>> >>, poly[i], poly[i + 1])

\* C20 as stated: after a fit of at least 2 points on a closed polygon every
\* boundary point lies on an edge of the polygon, at p1 + t (p2 - p1) with
\* 0 <= t < 1, and every vertex of the polygon is among the points once.
C20_OnEdgesVerticesOnce ==
    ClosedFit =>
        /\ AllOnEdges(gen.boundary_points, gen.fit.boundary_shape)
        /\ \A i \in 1..Len(gen.fit.boundary_shape) :
             Emitted(gen.boundary_points, gen.fit.boundary_shape[i]) = 1
\* C20 amended: every boundary point lies on an edge with 0 <= t < 1; a
\* polygon of one vertex gives no points and an unfitted generator; any other
\* closed polygon has every vertex among the points, and exactly once when
\* its vertices are distinct and none lies on another edge.
C20_OnEdgesVerticesEmitted ==
    ClosedFit =>
        /\ AllOnEdges(gen.boundary_points, gen.fit.boundary_shape)
        /\ Len(gen.fit.boundary_shape) = 1 => gen.boundary_points = <<>> /\ ~gen.is_fitted
        /\ Len(gen.fit.boundary_shape) > 1 =>
             /\ gen.is_fitted
             /\ \A i \in 1..Len(gen.fit.boundary_shape) :
                  Emitted(gen.boundary_points, gen.fit.boundary_shape[i]) >= 1
        /\ SimplePolygon(gen.fit.boundary_shape) =>
             \A i \in 1..Len(gen.fit.boundary_shape) :
                Emitted(gen.boundary_points, gen.fit.boundary_shape[i]) = 1
\* a closed triangle sampled at the adaptive segment length: points between
\* the vertices as well
C20_Witness ==
    /\ ClosedFit
    /\ gen.is_fitted
    /\ gen.fit.boundary_shape = Append(Triangle, Triangle[1])
    /\ gen.fit.target_segment_length = <<>>
    /\ Len(gen.boundary_points) > 3

\* C21: a transform changes nothing a fit has stored, works again and again
\* after one fit, and gives for boundary point i the sum over its 2 neighbors
\* k of weight[i][k] x values[index[i][k]].
C21_TransformIsPure ==
    [][ gen'.transform.count = gen.transform.count + 1 =>
          /\ gen'.is_fitted = gen.is_fitted
          /\ gen'.boundary_points = gen.boundary_points
          /\ gen'.idw_indices = gen.idw_indices
          /\ gen'.idw_weights = gen.idw_weights
          /\ gen'.fit = gen.fit
          /\ ~gen.is_fitted => gen'.transform.result = <<>>
          /\ gen.is_fitted =>
               /\ Len(gen'.transform.result) = Len(gen.boundary_points)
               /\ \A i \in 1..Len(gen.boundary_points) :
                    RatioEqual(
                        gen'.transform.result[i],
                        RatioAdd(RatioTimes(WeightValue(gen.idw_weights[i][1]),
                                            Whole(gen'.transform.values[gen.idw_indices[i][1]])),
                                 RatioTimes(WeightValue(gen.idw_weights[i][2]),
                                            Whole(gen'.transform.values[gen.idw_indices[i][2]]))))
      ]_vars
\* the second transform after one fit, of other values than the first, with
\* a boundary point strictly between the values of its neighbors
C21_Witness ==
    /\ gen.is_fitted
    /\ gen.transform.count = 2
    /\ gen.transform.previous # gen.transform.values
    /\ \E i \in 1..Len(gen.transform.result) :
         /\ ~RatioEqual(gen.transform.result[i], Whole(1))
         /\ ~RatioEqual(gen.transform.result[i], Whole(2))

\* the distance from boundary point i to its neighbor k, as a quotient
NeighborDistance(i, k) ==
    LET q == gen.boundary_points[i]
    IN  Ratio(<<Root(SquaredTo(q, gen.fit.points[gen.idw_indices[i][k]]))>>, <<q[1][2]>>)
\* C30: the weights of a boundary point are the inverses of the distances
\* to its 2 neighbors divided by their sum, but a neighbor at a distance
\* below 1e-9 has weight 1 and the other one weight 0.
C30_FullWeightAtZeroDistance ==
    gen.is_fitted =>
        \A i \in 1..Len(gen.boundary_points) :
            LET d1 == NeighborDistance(i, 1)
                d2 == NeighborDistance(i, 2)
                w1 == WeightValue(gen.idw_weights[i][1])
                w2 == WeightValue(gen.idw_weights[i][2])
            IN  IF RatioEqual(d1, Whole(0)) /\ RatioEqual(d2, Whole(0))
                THEN TRUE   \* two source points at the boundary point: either may be "that neighbor"
                ELSE IF RatioEqual(d1, Whole(0))
                THEN RatioEqual(w1, Whole(1)) /\ RatioEqual(w2, Whole(0))
                ELSE IF RatioEqual(d2, Whole(0))
                THEN RatioEqual(w2, Whole(1)) /\ RatioEqual(w1, Whole(0))
                ELSE /\ RatioEqual(w1, RatioDivide(d2, RatioAdd(d1, d2)))
                     /\ RatioEqual(w2, RatioDivide(d1, RatioAdd(d1, d2)))

(***************************************************************************)
(* C23: a failing FastRBFInterpolator.fit.                                 *)
(***************************************************************************)
\* the last pass refitted on points two of which coincide
FailedFit == hist.pass.refit /\ ~NoDuplicates(layer.rbf_interp.points)

C24_ThreeParallelSequences ==
    LET E == layer.excluded_indices
        kept == Mask(points, E)
        r == get_valid_data(points, values, E)
    IN  /\ Len(r) = 3
        /\ \A k \in 1..Len(r) :
              Len(r[k]) = Len(points) - Cardinality(E \cap 0..(Len(points) - 1))
        /\ r[1] = Take(points, kept)
        /\ r[2] = Take(values, kept)

(***************************************************************************)
(* C25: the excluded sets are the layers' own.                             *)
(***************************************************************************)
\* C25: a call on a layer's excluded set, or its get_valid_data, leaves the
\* container's points and values as they were and makes the container emit
\* nothing (no container call is recorded), and it leaves the excluded set
\* of every other layer of the container as it was.
C25_ExclusionLeavesContainer ==
    [][dlayers' # dlayers =>
          /\ points' = points
          /\ values' = values
          /\ lastCall' = lastCall
          /\ \A l \in DataLayers :
                l # dlayers'.call.layer => dlayers'.excluded[l] = dlayers.excluded[l]]_vars

\* layer 2 reads its valid data, a proper part of the container's, while
\* layer 1 excludes other rows
C25_Witness ==
    /\ dlayers.call.op = "get_valid_data"
    /\ dlayers.call.layer = 2
    /\ Len(points) = 3
    /\ Len(dlayers.call.returned[1]) = 2
    /\ dlayers.excluded[1] # {}
    /\ dlayers.excluded[1] # dlayers.excluded[2]

(***************************************************************************)
(* C26: the fast pass of a change.                                         *)
(***************************************************************************)
\* a step that is a change of the data or of the boundary
DataOrBoundaryChange ==
    /\ hist'.changes = hist.changes + 1
    /\ hist'.quality = <<>>
    /\ ~hist'.shape_call.raised
    /\ hist'.change.kind \in {"data", "boundary"}

C27_RaisingCallChangesNothing ==
    lastCall.raised => ~lastCall.changed /\ lastCall.emitted = 0

====
